---- MODULE Spec2Model ----
(***************************************************************************)
(* nicop (src/nicop/src/main.rs): a repeating-key XOR cipher over UTF-16   *)
(* code units with a 4-slot key, a per-slot character frequency table and  *)
(* a key-recovery heuristic that assumes 'E' is the most frequent letter.  *)
(*                                                                         *)
(* Characters are Unicode code points (naturals), strings are sequences of *)
(* code points, a byte is a natural in 0..255 and a byte pair is a         *)
(* two-element sequence <<b0, b1>>.  Rust indices 0..n-1 are TLA+          *)
(* positions 1..n; the slot of position p is (p - 1) % 4.                  *)
(***************************************************************************)
EXTENDS Integers, Sequences, FiniteSets, TLC

VARIABLES
    \* cipher / codec operations on their own
    cpc, ckey, cmsg, cenc, cback, cdec, cdecoded,
    \* FreqTable used on its own; calls is the history of its add calls
    fpc, freq, calls, ftext, most, mostSep,
    \* format_contents on its own
    npc, nraw, nout,
    \* fn main; stages is the history of the pipeline stages run
    pc, key, contents, encrypted_contents, most_freq_chars, new_key,
    decryption_attempt, stages

cvars == <<cpc, ckey, cmsg, cenc, cback, cdec, cdecoded>>
fvars == <<fpc, freq, calls, ftext, most, mostSep>>
nvars == <<npc, nraw, nout>>
mvars == <<pc, key, contents, encrypted_contents, most_freq_chars, new_key,
           decryption_attempt, stages>>
vars == <<cvars, fvars, nvars, mvars>>

----------------------------------------------------------------------------
(* Bounds of the model *)

\* longest normalized text given to the cipher operations
MaxLen == 5
\* most FreqTable::add calls made on one table
MaxAdds == 4
\* longest raw string given to format_contents
MaxRaw == 3
\* longest file contents read by main
MaxFile == 9
\* most byte pairs given to Message::from_bytes directly
MaxPairs == 2
\* longest text given to analyze_chars_frequencies on its own
MaxText == 5

\* the number of key slots: vec![..; 4], i % 4, for _ in 0..4
Slots == 4

\* Option / Result values: None (or Err) and Some(x) (or Ok(x))
None == <<"None">>
Some(x) == <<"Some", x>>

\* the two-byte blocks the model lets rand draw for a key slot
KeyBlocks == {<<0, 1>>, <<216, 101>>, <<18, 255>>}
Keys == [1..Slots -> KeyBlocks]
\* the blocks drawn for the key of main
MainKeyBlocks == {<<0, 1>>, <<216, 101>>}
MainKeys == [1..Slots -> MainKeyBlocks]

\* 'E', the letter key recovery assumes to be the most frequent
ChE == 69
\* ' ', the initial max_occ_ch of get_most_frequent_chars
ChSpace == 32

RECURSIVE SeqsUpTo(_, _)
SeqsUpTo(S, n) ==
    IF n = 0 THEN {<<>>}
    ELSE LET shorter == SeqsUpTo(S, n - 1)
         IN  shorter \cup {Append(s, x) : s \in {t \in shorter : Len(t) = n - 1}, x \in S}

----------------------------------------------------------------------------
(* Integer operations of the source, at their width *)

RECURSIVE XorBits(_, _, _)
XorBits(a, b, n) ==
    IF n = 0 THEN 0
    ELSE (((a % 2) + (b % 2)) % 2) + (2 * XorBits(a \div 2, b \div 2, n - 1))

RECURSIVE OrBits(_, _, _)
OrBits(a, b, n) ==
    IF n = 0 THEN 0
    ELSE (IF (a % 2) = 1 \/ (b % 2) = 1 THEN 1 ELSE 0) + (2 * OrBits(a \div 2, b \div 2, n - 1))

RECURSIVE AndBits(_, _, _)
AndBits(a, b, n) ==
    IF n = 0 THEN 0
    ELSE (IF (a % 2) = 1 /\ (b % 2) = 1 THEN 1 ELSE 0) + (2 * AndBits(a \div 2, b \div 2, n - 1))

\* u8 ^ u8, u8 | u8, u8 & 0xff
Xor8(a, b) == XorBits(a, b, 8)
Or8(a, b) == OrBits(a, b, 8)
And8(a, b) == AndBits(a, b, 8)

RECURSIVE Pow2(_)
Pow2(n) == IF n = 0 THEN 1 ELSE 2 * Pow2(n - 1)

\* uN::checked_shl(x, rhs): None when rhs >= N, else x << rhs truncated to N bits
CheckedShl(x, rhs, width) ==
    IF rhs >= width THEN None ELSE Some((x * Pow2(rhs)) % Pow2(width))

\* Option::unwrap_or / Result::unwrap_or
UnwrapOr(opt, dflt) == IF opt[1] = "Some" THEN opt[2] ELSE dflt

----------------------------------------------------------------------------
(* UTF-16 *)

\* char::encode_utf16 as used by str::encode_utf16
EncodeUtf16Char(c) ==
    IF c < 65536 THEN <<c>>
    ELSE <<55296 + ((c - 65536) \div 1024), 56320 + ((c - 65536) % 1024)>>

RECURSIVE EncodeUtf16(_)
EncodeUtf16(text) ==
    IF text = <<>> THEN <<>>
    ELSE EncodeUtf16Char(Head(text)) \o EncodeUtf16(Tail(text))

IsHighSurrogate(u) == u >= 55296 /\ u <= 56319
IsLowSurrogate(u) == u >= 56320 /\ u <= 57343

\* String::from_utf16: Err (None) on an unpaired surrogate, else Ok (Some) of the text
RECURSIVE FromUtf16(_)
FromUtf16(units) ==
    IF units = <<>> THEN Some(<<>>)
    ELSE LET u == Head(units)
         IN  IF ~IsHighSurrogate(u) /\ ~IsLowSurrogate(u)
             THEN LET rest == FromUtf16(Tail(units))
                  IN  IF rest = None THEN None ELSE Some(<<u>> \o rest[2])
             ELSE IF IsHighSurrogate(u) /\ Len(units) >= 2 /\ IsLowSurrogate(units[2])
             THEN LET rest == FromUtf16(Tail(Tail(units)))
                      c == 65536 + ((u - 55296) * 1024) + (units[2] - 56320)
                  IN  IF rest = None THEN None ELSE Some(<<c>> \o rest[2])
             ELSE None

----------------------------------------------------------------------------
(* Message *)

\* u16::to_be_bytes
ToBeBytes(u) == <<u \div 256, u % 256>>

\* Message::from_string
MessageFromString(text) ==
    LET text_bytes == EncodeUtf16(text)
    IN  [bytes |-> [i \in 1..Len(text_bytes) |-> ToBeBytes(text_bytes[i])],
         text  |-> text]

\* one iteration of the loop of Message::from_bytes: the u16 pushed for a pair.
\* bytes[i][0] is a u8, so checked_shl is u8::checked_shl and fbyte a u8.
FromBytesUnit(pair) ==
    LET fbyte == UnwrapOr(CheckedShl(And8(pair[1], 255), 8, 8), 0)
        sbyte == And8(pair[2], 255)
    IN  Or8(fbyte, sbyte)

\* the vector text_bytes_utf16 of Message::from_bytes
FromBytesUnits(bytes) == [i \in 1..Len(bytes) |-> FromBytesUnit(bytes[i])]

\* Message::from_bytes
MessageFromBytes(bytes) ==
    LET text == FromUtf16(FromBytesUnits(bytes))
    IN  [bytes |-> bytes, text |-> UnwrapOr(text, <<>>)]

----------------------------------------------------------------------------
(* Cipher *)

\* encrypt with | written for ^ on the second byte
EncryptOr(message, k) ==
    MessageFromBytes(
        [p \in 1..Len(message.bytes) |->
            <<Xor8(message.bytes[p][1], k[((p - 1) % Slots) + 1][1]),
              Or8(message.bytes[p][2], k[((p - 1) % Slots) + 1][2])>>])

\* fn encrypt
Encrypt(message, k) ==
    MessageFromBytes(
        [p \in 1..Len(message.bytes) |->
            <<Xor8(message.bytes[p][1], k[((p - 1) % Slots) + 1][1]),
              Xor8(message.bytes[p][2], k[((p - 1) % Slots) + 1][2])>>])

\* fn decrypt
Decrypt(message, k) == Encrypt(message, k)

----------------------------------------------------------------------------
(* FreqTable: frequencies is a sequence of 4 maps char -> count; a map is  *)
(* a function whose domain is the set of keys present                      *)

EmptyMap == [c \in {} |-> 0]

\* FreqTable::new
FreqNew == [s \in 1..Slots |-> EmptyMap]

\* FreqTable::add that overwrites the count with 1 instead of incrementing it
FreqAddSet(frequencies, table_index, ch) ==
    [frequencies EXCEPT ![table_index + 1] =
        IF ch \in DOMAIN @ THEN [@ EXCEPT ![ch] = 1] ELSE @ @@ (ch :> 1)]

\* FreqTable::add: *entry(ch).or_insert(0) += 1
FreqAdd(frequencies, table_index, ch) ==
    [frequencies EXCEPT ![table_index + 1] =
        LET inserted == IF ch \in DOMAIN @ THEN @ ELSE @ @@ (ch :> 0)
        IN  [inserted EXCEPT ![ch] = @ + 1]]

\* the orders in which map.keys() may yield the keys of a HashMap
KeyOrders(map) ==
    LET n == Cardinality(DOMAIN map)
    IN  {o \in [1..n -> DOMAIN map] : \A i, j \in 1..n : o[i] = o[j] => i = j}

\* the inner loop of get_most_frequent_chars that never updates max_occ
RECURSIVE MaxScanNoUpdate(_, _, _, _)
MaxScanNoUpdate(map, order, max_occ_ch, max_occ) ==
    IF order = <<>> THEN max_occ_ch
    ELSE LET c == Head(order)
         IN  IF map[c] > max_occ
             THEN MaxScanNoUpdate(map, Tail(order), c, max_occ)
             ELSE MaxScanNoUpdate(map, Tail(order), max_occ_ch, max_occ)

\* the inner loop of get_most_frequent_chars over the keys in iteration order
RECURSIVE MaxScan(_, _, _, _)
MaxScan(map, order, max_occ_ch, max_occ) ==
    IF order = <<>> THEN max_occ_ch
    ELSE LET c == Head(order)
         IN  IF map[c] > max_occ
             THEN MaxScan(map, Tail(order), c, map[c])
             ELSE MaxScan(map, Tail(order), max_occ_ch, max_occ)

\* FreqTable::get_most_frequent_chars, orders[s] being the iteration order of map s
GetMostFrequentChars(frequencies, orders) ==
    [s \in 1..Slots |-> MaxScan(frequencies[s], orders[s], ChSpace, 0)]

\* the iteration orders the 4 maps of a table may have
TableOrders(frequencies) ==
    {<<o1, o2, o3, o4>> : o1 \in KeyOrders(frequencies[1]), o2 \in KeyOrders(frequencies[2]),
                          o3 \in KeyOrders(frequencies[3]), o4 \in KeyOrders(frequencies[4])}

\* a sequence of add calls <<table_index, ch>> applied in order
RECURSIVE ApplyCalls(_, _)
ApplyCalls(frequencies, cs) ==
    IF cs = <<>> THEN frequencies
    ELSE ApplyCalls(FreqAdd(frequencies, Head(cs)[1], Head(cs)[2]), Tail(cs))

\* the add calls the loop of analyze_chars_frequencies makes, in order
AnalyzeCalls(chars) ==
    [p \in 1..Len(chars) |-> <<(p - 1) % Slots, chars[p]>>]

\* analyze_chars_frequencies on a new table
AnalyzeCharsFrequencies(chars, orders) ==
    GetMostFrequentChars(ApplyCalls(FreqNew, AnalyzeCalls(chars)), orders)

----------------------------------------------------------------------------
(* format_contents *)

\* char -> its canonical decomposition (unicode_normalization's nfd), on the
\* characters of RawChars: e-acute and E-acute decompose, the others do not
Nfd(c) ==
    CASE c = 233 -> <<101, 769>>
      [] c = 201 -> <<69, 769>>
      [] OTHER   -> <<c>>

\* char::is_ascii
IsAscii(c) == c <= 127

\* char::is_alphanumeric on the characters of RawChars and their images
IsAlphanumeric(c) ==
    \/ c \in 48..57
    \/ c \in 65..90
    \/ c \in 97..122
    \/ c \in {201, 233, 321, 322}

\* char::to_uppercase on the same characters
ToUpper(c) ==
    CASE c \in 97..122 -> <<c - 32>>
      [] c = 233       -> <<201>>
      [] c = 322       -> <<321>>
      [] OTHER         -> <<c>>

\* contents.nfd().collect::<String>()
RECURSIVE NfdString(_)
NfdString(s) == IF s = <<>> THEN <<>> ELSE Nfd(Head(s)) \o NfdString(Tail(s))

\* .replace(|c: char| !c.is_ascii(), "")
RECURSIVE RemoveNonAscii(_)
RemoveNonAscii(s) ==
    IF s = <<>> THEN <<>>
    ELSE IF ~IsAscii(Head(s)) THEN RemoveNonAscii(Tail(s))
    ELSE <<Head(s)>> \o RemoveNonAscii(Tail(s))

\* .replace(|c: char| !c.is_alphanumeric(), "")
RECURSIVE RemoveNonAlphanumeric(_)
RemoveNonAlphanumeric(s) ==
    IF s = <<>> THEN <<>>
    ELSE IF ~IsAlphanumeric(Head(s)) THEN RemoveNonAlphanumeric(Tail(s))
    ELSE <<Head(s)>> \o RemoveNonAlphanumeric(Tail(s))

\* .to_uppercase()
RECURSIVE ToUppercase(_)
ToUppercase(s) == IF s = <<>> THEN <<>> ELSE ToUpper(Head(s)) \o ToUppercase(Tail(s))

\* format_contents without the removal of the non-ASCII characters
FormatContentsKeepNonAscii(s) ==
    ToUppercase(RemoveNonAlphanumeric(NfdString(s)))

\* fn format_contents
FormatContents(s) ==
    ToUppercase(RemoveNonAlphanumeric(RemoveNonAscii(NfdString(s))))

----------------------------------------------------------------------------
(* Inputs of the model *)

\* normalized texts: 'E', '9', 'Z'
NormChars == {69, 57, 90}
NormTexts == SeqsUpTo(NormChars, MaxLen)

\* byte pairs given to Message::from_bytes directly: "A", U+0141, a high
\* surrogate, a low surrogate, U+FFFF
BytePairs == {<<0, 65>>, <<1, 65>>, <<216, 0>>, <<220, 0>>, <<255, 255>>}
BytePairSeqs == SeqsUpTo(BytePairs, MaxPairs)

\* characters added to a FreqTable: 'E', ' '
FreqChars == {69, 32}

\* raw characters: 'e', 'E', '9', ' ', '-', e-acute, l-stroke, combining acute
RawChars == {101, 69, 57, 32, 45, 233, 322, 769}
RawTexts == SeqsUpTo(RawChars, MaxRaw)

\* file contents: 'E', 'z'
FileChars == {69, 122}
FileTexts == SeqsUpTo(FileChars, MaxFile)

NoMessage == [bytes |-> <<>>, text |-> <<>>]

----------------------------------------------------------------------------
(* The cipher and codec operations, each applied to the result of the last *)

InitCipher ==
    /\ cpc = "start"
    /\ ckey = <<>>
    /\ cmsg = NoMessage
    /\ cenc = NoMessage
    /\ cback = NoMessage
    /\ cdec = NoMessage
    /\ cdecoded = NoMessage

\* Key::new
CKeyNew ==
    /\ cpc = "start"
    /\ \E k \in Keys : ckey' = k
    /\ cpc' = "keyed"
    /\ UNCHANGED <<cmsg, cenc, cback, cdec, cdecoded>>

\* Message::from_string(text)
CFromString ==
    /\ cpc = "keyed"
    /\ \E text \in NormTexts : cmsg' = MessageFromString(text)
    /\ cpc' = "built"
    /\ UNCHANGED <<ckey, cenc, cback, cdec, cdecoded>>

\* encrypt(&message, &key)
CEncrypt ==
    /\ cpc = "built"
    /\ cenc' = Encrypt(cmsg, ckey)
    /\ cpc' = "encrypted"
    /\ UNCHANGED <<ckey, cmsg, cback, cdec, cdecoded>>

\* encrypt(&encrypted, &key)
CEncryptAgain ==
    /\ cpc = "encrypted"
    /\ cback' = Encrypt(cenc, ckey)
    /\ cpc' = "reencrypted"
    /\ UNCHANGED <<ckey, cmsg, cenc, cdec, cdecoded>>

\* decrypt(&encrypted, &key)
CDecrypt ==
    /\ cpc = "encrypted"
    /\ cdec' = Decrypt(cenc, ckey)
    /\ cpc' = "decrypted"
    /\ UNCHANGED <<ckey, cmsg, cenc, cback, cdecoded>>

\* Message::from_bytes(bytes) on byte pairs from outside
CFromBytes ==
    /\ cpc = "start"
    /\ \E bytes \in BytePairSeqs : cdecoded' = MessageFromBytes(bytes)
    /\ cpc' = "decoded"
    /\ UNCHANGED <<ckey, cmsg, cenc, cback, cdec>>

NextCipher ==
    /\ \/ CKeyNew
       \/ CFromString
       \/ CEncrypt
       \/ CEncryptAgain
       \/ CDecrypt
       \/ CFromBytes
    /\ UNCHANGED <<fvars, nvars, mvars>>

----------------------------------------------------------------------------
(* A FreqTable used through its methods, and analyze_chars_frequencies *)

InitFreq ==
    /\ fpc = "new"
    /\ freq = FreqNew
    /\ calls = <<>>
    /\ ftext = <<>>
    /\ most = <<>>
    /\ mostSep = <<>>

\* the add calls of cs for slot 0, then those for slot 1, 2 and 3
CallsOfSlot(cs, s) == SelectSeq(cs, LAMBDA c : c[1] = s)
SlotBySlot(cs) ==
    CallsOfSlot(cs, 0) \o CallsOfSlot(cs, 1) \o CallsOfSlot(cs, 2) \o CallsOfSlot(cs, 3)

\* freq_table.add(table_index, ch)
FAdd ==
    /\ fpc \in {"new", "adding"}
    /\ Len(calls) < MaxAdds
    /\ \E table_index \in 0..(Slots - 1), ch \in FreqChars :
          /\ freq' = FreqAdd(freq, table_index, ch)
          /\ calls' = Append(calls, <<table_index, ch>>)
    /\ fpc' = "adding"
    /\ UNCHANGED <<ftext, most, mostSep>>

\* freq_table.get_most_frequent_chars(), and the same call on a second table
\* that received the same add calls slot by slot
FGet ==
    /\ fpc \in {"new", "adding"}
    /\ \E orders \in TableOrders(freq) : most' = GetMostFrequentChars(freq, orders)
    /\ LET sep == ApplyCalls(FreqNew, SlotBySlot(calls))
       IN  \E orders \in TableOrders(sep) : mostSep' = GetMostFrequentChars(sep, orders)
    /\ fpc' = "got"
    /\ UNCHANGED <<freq, calls, ftext>>

\* analyze_chars_frequencies(FreqTable::new(), &text)
FAnalyze ==
    /\ fpc = "new"
    /\ \E text \in SeqsUpTo(FreqChars, MaxText) :
          /\ ftext' = text
          /\ calls' = AnalyzeCalls(text)
          /\ freq' = ApplyCalls(FreqNew, AnalyzeCalls(text))
          /\ \E orders \in TableOrders(freq') :
                /\ most' = GetMostFrequentChars(freq', orders)
                /\ mostSep' = most'
    /\ fpc' = "analyzed"

NextFreq ==
    /\ \/ FAdd
       \/ FGet
       \/ FAnalyze
    /\ UNCHANGED <<cvars, nvars, mvars>>

----------------------------------------------------------------------------
(* format_contents applied to a raw string *)

InitNorm ==
    /\ npc = "start"
    /\ nraw = <<>>
    /\ nout = <<>>

\* format_contents(raw)
NFormat ==
    /\ npc = "start"
    /\ \E raw \in RawTexts :
          /\ nraw' = raw
          /\ nout' = FormatContents(raw)
    /\ npc' = "formatted"

\* format_contents(format_contents(raw))
NFormatAgain ==
    /\ npc = "formatted"
    /\ nout' = FormatContents(nout)
    /\ npc' = "reformatted"
    /\ UNCHANGED nraw

NextNorm ==
    /\ \/ NFormat
       \/ NFormatAgain
    /\ UNCHANGED <<cvars, fvars, mvars>>

----------------------------------------------------------------------------
(* fn main *)

\* the key-recovery loop of main without the XOR against the bytes of "E"
RecoverKeyNoXor(chars) ==
    [i \in 1..Len(chars) |->
        LET snd_most_freq_char_bytes == MessageFromString(<<chars[i]>>).bytes
        IN  <<snd_most_freq_char_bytes[1][1], snd_most_freq_char_bytes[1][2]>>]

\* the key-recovery loop of main: decryption_key_bytes from most_freq_chars
RecoverKey(chars) ==
    LET e_bytes == MessageFromString(<<ChE>>).bytes
    IN  [i \in 1..Len(chars) |->
            LET snd_most_freq_char_bytes == MessageFromString(<<chars[i]>>).bytes
            IN  <<Xor8(e_bytes[1][1], snd_most_freq_char_bytes[1][1]),
                  Xor8(e_bytes[1][2], snd_most_freq_char_bytes[1][2])>>]

\* the five stages, in the order of the statements of main
StageOrder == <<"normalize", "encrypt", "tabulate", "recover-key", "decrypt">>

\* a stage run: the values of main it read and the value it produced
Ran(stage, reads, writes) == [stage |-> stage, reads |-> reads, writes |-> writes]

InitMain ==
    /\ pc = "args"
    /\ key = <<>>
    /\ contents = <<>>
    /\ encrypted_contents = <<>>
    /\ most_freq_chars = <<>>
    /\ new_key = <<>>
    /\ decryption_attempt = <<>>
    /\ stages = <<>>

\* args.next() is None: panic!("no path supplied")
MNoPath ==
    /\ pc = "args"
    /\ pc' = "panicked"
    /\ UNCHANGED <<key, contents, encrypted_contents, most_freq_chars, new_key,
                   decryption_attempt, stages>>

\* args.next() is Some(f)
MPath ==
    /\ pc = "args"
    /\ pc' = "create_dir"
    /\ UNCHANGED <<key, contents, encrypted_contents, most_freq_chars, new_key,
                   decryption_attempt, stages>>

\* fs::create_dir_all Ok
MCreateDir ==
    /\ pc = "create_dir"
    /\ pc' = "key"
    /\ UNCHANGED <<key, contents, encrypted_contents, most_freq_chars, new_key,
                   decryption_attempt, stages>>

\* fs::create_dir_all, fs::read_to_string, File::create or write Err: panic!
MIoFailure ==
    /\ pc \in {"create_dir", "read", "write_enc", "write_dec"}
    /\ pc' = "panicked"
    /\ UNCHANGED <<key, contents, encrypted_contents, most_freq_chars, new_key,
                   decryption_attempt, stages>>

\* let key = Key::new()
MKeyNew ==
    /\ pc = "key"
    /\ \E k \in MainKeys : key' = k
    /\ pc' = "read"
    /\ UNCHANGED <<contents, encrypted_contents, most_freq_chars, new_key,
                   decryption_attempt, stages>>

\* let mut contents = fs::read_to_string(&fpath) Ok
MRead ==
    /\ pc = "read"
    /\ \E text \in FileTexts : contents' = text
    /\ pc' = "normalize"
    /\ UNCHANGED <<key, encrypted_contents, most_freq_chars, new_key,
                   decryption_attempt, stages>>

\* contents = format_contents(contents)
MNormalize ==
    /\ pc = "normalize"
    /\ contents' = FormatContents(contents)
    /\ stages' = Append(stages, Ran("normalize", {"file"}, "contents"))
    /\ pc' = "encrypt"
    /\ UNCHANGED <<key, encrypted_contents, most_freq_chars, new_key, decryption_attempt>>

\* let encrypted_contents = encrypt(&Message::from_string(contents), &key).text
MEncrypt ==
    /\ pc = "encrypt"
    /\ encrypted_contents' = Encrypt(MessageFromString(contents), key).text
    /\ stages' = Append(stages, Ran("encrypt", {"contents", "key"}, "encrypted_contents"))
    /\ pc' = "write_enc"
    /\ UNCHANGED <<key, contents, most_freq_chars, new_key, decryption_attempt>>

\* File::create(&enc_fname) and encrypted_file.write(&enc_bytes) Ok
MWriteEnc ==
    /\ pc = "write_enc"
    /\ pc' = "tabulate"
    /\ UNCHANGED <<key, contents, encrypted_contents, most_freq_chars, new_key,
                   decryption_attempt, stages>>

\* the tabulate stage run twice
MTabulateTwice ==
    /\ pc = "tabulate"
    /\ \E orders \in TableOrders(ApplyCalls(FreqNew, AnalyzeCalls(encrypted_contents))) :
          most_freq_chars' = AnalyzeCharsFrequencies(encrypted_contents, orders)
    /\ stages' = stages \o <<Ran("tabulate", {"encrypted_contents"}, "most_freq_chars"),
                             Ran("tabulate", {"encrypted_contents"}, "most_freq_chars")>>
    /\ pc' = "recover"
    /\ UNCHANGED <<key, contents, encrypted_contents, new_key, decryption_attempt>>

\* let most_freq_chars = analyze_chars_frequencies(FreqTable::new(), &encrypted_contents)
MTabulate ==
    /\ pc = "tabulate"
    /\ \E orders \in TableOrders(ApplyCalls(FreqNew, AnalyzeCalls(encrypted_contents))) :
          most_freq_chars' = AnalyzeCharsFrequencies(encrypted_contents, orders)
    /\ stages' = Append(stages, Ran("tabulate", {"encrypted_contents"}, "most_freq_chars"))
    /\ pc' = "recover"
    /\ UNCHANGED <<key, contents, encrypted_contents, new_key, decryption_attempt>>

\* let new_key = Key::from_bytes(decryption_key_bytes)
MRecoverKey ==
    /\ pc = "recover"
    /\ new_key' = RecoverKey(most_freq_chars)
    /\ stages' = Append(stages, Ran("recover-key", {"most_freq_chars"}, "new_key"))
    /\ pc' = "decrypt"
    /\ UNCHANGED <<key, contents, encrypted_contents, most_freq_chars, decryption_attempt>>

\* let decryption_attempt = decrypt(&Message::from_string(encrypted_contents), &new_key).text
MDecrypt ==
    /\ pc = "decrypt"
    /\ decryption_attempt' = Decrypt(MessageFromString(encrypted_contents), new_key).text
    /\ stages' = Append(stages, Ran("decrypt", {"encrypted_contents", "new_key"},
                                    "decryption_attempt"))
    /\ pc' = "write_dec"
    /\ UNCHANGED <<key, contents, encrypted_contents, most_freq_chars, new_key>>

\* File::create(&dec_fname) and decrypted_file.write(&dec_bytes) Ok
MWriteDec ==
    /\ pc = "write_dec"
    /\ pc' = "done"
    /\ UNCHANGED <<key, contents, encrypted_contents, most_freq_chars, new_key,
                   decryption_attempt, stages>>

NextMain ==
    /\ \/ MNoPath
       \/ MPath
       \/ MCreateDir
       \/ MIoFailure
       \/ MKeyNew
       \/ MRead
       \/ MNormalize
       \/ MEncrypt
       \/ MWriteEnc
       \/ MTabulate
       \/ MRecoverKey
       \/ MDecrypt
       \/ MWriteDec
    /\ UNCHANGED <<cvars, fvars, nvars>>

----------------------------------------------------------------------------
(* Specifications *)

Init == InitCipher /\ InitFreq /\ InitNorm /\ InitMain

SpecCipher == Init /\ [][NextCipher]_vars
SpecFreq == Init /\ [][NextFreq]_vars
SpecNorm == Init /\ [][NextNorm]_vars
SpecMain == Init /\ [][NextMain]_vars

----------------------------------------------------------------------------
(* Properties *)

IsNormalized(text) == \A i \in 1..Len(text) : text[i] \in (65..90) \cup (48..57)

\* C1: for every key and every message built by Message::from_string from a
\* normalized text, encrypting the encryption with the same key gives back the
\* message, bytes and text, and so does decrypting the encryption.
C1_RoundTrip ==
    /\ cpc = "reencrypted" /\ IsNormalized(cmsg.text) =>
          cback.bytes = cmsg.bytes /\ cback.text = cmsg.text
    /\ cpc = "decrypted" /\ IsNormalized(cmsg.text) =>
          cdec.bytes = cmsg.bytes /\ cdec.text = cmsg.text

\* a text longer than the key, every key slot with a non-zero high byte, was
\* encrypted twice
C1_Witness ==
    /\ cpc = "reencrypted"
    /\ Len(cmsg.text) > Slots
    /\ \A s \in 1..Slots : ckey[s][1] # 0
    /\ cenc.bytes # cmsg.bytes
    /\ cback = cmsg

\* C2: with the plaintext "EEEEEEEE", the key recovered by main equals the
\* key the plaintext was encrypted with, in both bytes of each of the 4 slots.
C2_KeyRecoveryExact ==
    pc = "done" /\ contents = <<69, 69, 69, 69, 69, 69, 69, 69>> => new_key = key

\* the 16-bit code units the byte pairs stand for, big-endian
BigEndianUnits(bytes) == [i \in 1..Len(bytes) |-> (256 * bytes[i][1]) + bytes[i][2]]

\* C3: decoding byte pairs that form an unpaired surrogate code unit gives
\* the fallback of a decode failure, the empty text.
C3_MalformedDecode ==
    cpc = "decoded" /\ FromUtf16(BigEndianUnits(cdecoded.bytes)) = None =>
        cdecoded.text = <<>>

\* C4: Message::from_bytes reassembles every byte pair [b0, b1] into the code
\* unit 256 * b0 + b1, and a well-formed sequence decodes to the text it encodes.
C4_Reassembly ==
    cpc = "decoded" =>
        /\ FromBytesUnits(cdecoded.bytes) = BigEndianUnits(cdecoded.bytes)
        /\ \A text \in SeqsUpTo({65, 321, 65535}, MaxPairs) :
              MessageFromString(text).bytes = cdecoded.bytes => cdecoded.text = text

\* C5: get_most_frequent_chars gives the same result on a table that received
\* its add calls interleaved across the slots and on a table that received
\* the same calls slot by slot, ties included.
C5_SlotIndependence ==
    fpc = "got" => most = mostSep

\* C6: get_most_frequent_chars returns 4 characters; for a slot that received
\* characters, one whose count no other character of the slot exceeds; for a
\* slot that received none, ' '.
C6_MostFrequent ==
    fpc \in {"got", "analyzed"} =>
        /\ Len(most) = 4
        /\ \A s \in 1..4 :
              IF DOMAIN freq[s] = {}
              THEN most[s] = 32
              ELSE /\ most[s] \in DOMAIN freq[s]
                   /\ \A c \in DOMAIN freq[s] : freq[s][c] <= freq[s][most[s]]

\* a table with an empty slot and a slot whose two characters have different
\* counts, the less frequent one being ' ', was asked for its most frequent
\* characters
C6_Witness ==
    /\ fpc = "got"
    /\ \E s, t \in 1..4 :
          /\ DOMAIN freq[s] = {}
          /\ DOMAIN freq[t] = {32, 69}
          /\ freq[t][69] > freq[t][32]
          /\ most[t] = 69
          /\ most[s] = 32

\* C7: format_contents returns only characters in [A-Z0-9].
C7_NormalizationRange ==
    npc \in {"formatted", "reformatted"} => IsNormalized(nout)

\* a raw string with an accented letter, a non-ASCII letter and a lower-case
\* letter was formatted, and part of it is kept
C7_Witness ==
    /\ npc = "formatted"
    /\ \E i, j, k \in 1..Len(nraw) : nraw[i] = 233 /\ nraw[j] = 322 /\ nraw[k] = 101
    /\ nout = <<69, 69>>

\* the count stored for (slot, ch): 0 when ch is not a key of the slot's map
Count(frequencies, slot, ch) ==
    IF ch \in DOMAIN frequencies[slot + 1] THEN frequencies[slot + 1][ch] ELSE 0

\* the number of calls add(slot, ch) in a history of calls
CallsOf(cs, slot, ch) == Cardinality({i \in 1..Len(cs) : cs[i] = <<slot, ch>>})

C8_Counts ==
    /\ Len(freq) = 4
    /\ \A slot \in 0..3 :
          /\ DOMAIN freq[slot + 1] \subseteq FreqChars
          /\ \A ch \in FreqChars : Count(freq, slot, ch) = CallsOf(calls, slot, ch)
          /\ \A ch \in DOMAIN freq[slot + 1] : freq[slot + 1][ch] >= 1
    /\ fpc = "new" => \A slot \in 0..3 : DOMAIN freq[slot + 1] = {}
    /\ fpc = "analyzed" =>
          /\ Len(calls) = Len(ftext)
          /\ \A p \in 1..Len(ftext) : calls[p] = <<(p - 1) % 4, ftext[p]>>

C8_Step ==
    /\ \A slot \in 0..3 : \A ch \in DOMAIN freq[slot + 1] :
          /\ ch \in DOMAIN freq'[slot + 1]
          /\ freq'[slot + 1][ch] >= freq[slot + 1][ch]
    /\ fpc' = "adding" =>
          \E slot \in 0..3, ch \in FreqChars :
             /\ calls' = Append(calls, <<slot, ch>>)
             /\ Count(freq', slot, ch) = Count(freq, slot, ch) + 1
             /\ \A s \in 0..3, c \in FreqChars :
                   <<s, c>> # <<slot, ch>> => Count(freq', s, c) = Count(freq, s, c)

\* C8: a new table has 4 empty maps; the count of (slot, ch) is the number of
\* add(slot, ch) calls made; an add raises one count by 1 and leaves the others;
\* no count decreases and no entry is removed; tabulating a text adds its
\* characters in order, the one at position i to slot i mod 4.
C8_Counting == []C8_Counts /\ [][C8_Step]_vars

\* a character was added a second time to a slot while another slot had entries
C8_Witness ==
    /\ fpc = "adding"
    /\ \E s, t \in 1..4 : s # t /\ DOMAIN freq[s] = {69} /\ freq[s][69] = 2
                          /\ DOMAIN freq[t] = {32, 69}

\* the order part of C9: the stages run are the first stages of StageOrder,
\* each once, and all five when main returns
StagesInOrder ==
    /\ Len(stages) <= 5
    /\ \A i \in 1..Len(stages) : stages[i].stage = StageOrder[i]
    /\ pc = "done" => Len(stages) = 5
    /\ pc = "args" => Len(stages) = 0

\* C9 as stated: the five stages run once each in order, and each stage reads
\* only what the stage before it produced (the key apart).
C9_SoleInput ==
    /\ StagesInOrder
    /\ \A i \in 2..Len(stages) : stages[i].reads \ {"key"} = {stages[i - 1].writes}

\* C9, amended: the five stages run once each in order; encrypt, tabulate and
\* recover-key read what the stage before them produced (encrypt also the key),
\* and decrypt reads encrypt's ciphertext text and recover-key's key.
C9_PipelineOrder ==
    /\ StagesInOrder
    /\ \A i \in 2..Len(stages) :
          stages[i].reads \ {"key"} =
             IF stages[i].stage = "decrypt"
             THEN {stages[i - 1].writes, stages[2].writes}
             ELSE {stages[i - 1].writes}

\* main returned after the five stages
C9_Witness ==
    /\ pc = "done"
    /\ Len(stages) = 5
    /\ stages[5].stage = "decrypt"
    /\ Len(contents) > 0

\* the number of positions of text in slot s (0..3) that hold ch
InSlot(text, s, ch) ==
    Cardinality({p \in 1..Len(text) : (p - 1) % 4 = s /\ text[p] = ch})

\* 'E' is the strictly most frequent character of each of the 4 slots
EMostFrequent(text) ==
    \A s \in 0..3 :
        /\ InSlot(text, s, 69) > 0
        /\ \A p \in 1..Len(text) :
              text[p] # 69 => InSlot(text, s, 69) > InSlot(text, s, text[p])

\* C10: when 'E' is the strictly most frequent character of every slot of the
\* normalized plaintext, the decryption attempt of main is the plaintext,
\* whatever the key.
C10_EndToEnd ==
    pc \in {"write_dec", "done"} /\ IsNormalized(contents) /\ EMostFrequent(contents) =>
        decryption_attempt = contents

\* main decrypted a plaintext with a character other than 'E', under a key
\* with non-zero high bytes
C10_Witness ==
    /\ pc = "done"
    /\ EMostFrequent(contents)
    /\ \E p \in 1..Len(contents) : contents[p] = 90
    /\ \A s \in 1..4 : key[s][1] # 0
    /\ decryption_attempt = contents

====
